---------------------------- MODULE Spec2Model ----------------------------
(***************************************************************************)
(* Model of the serving and peer-discovery core of the SPV node:           *)
(*   - configdb.rs : ConfigDB / ConfigTX, the transactional peer store     *)
(*   - blockserver.rs : BlockServer, the worker answering getheaders,      *)
(*     getblocks and getdata against the shared chain index                *)
(*                                                                         *)
(* Nine specifications share the module:                                   *)
(*   Spec       the peer store: scopes, the mutating calls, the clock      *)
(*   SpecDraw   get_a_peer on every table a few mutating calls can build   *)
(*   SpecCall   one get_a_peer call run to its end                         *)
(*   SpecCodec  the address key codec applied to sampled addresses         *)
(*   SpecBS     the block server answering one request of any shape        *)
(*   SpecLoop   the block server under producers that never stop           *)
(*   SpecFull   one message sent without end under a fair scheduler        *)
(*   SpecPoison the block server beside a chain writer that may panic      *)
(*   SpecBurst  a recorded burst of messages under a fair scheduler        *)
(* Clock values and service flags stay far below the u32 and u64 limits.   *)
(***************************************************************************)
EXTENDS Integers, Sequences, FiniteSets, TLC

VARIABLES
    db,        \* committed database content: [schema, peers, birth]
    tx,        \* content seen by the open transaction (db plus uncommitted work)
    scope,     \* "closed" | "open": whether a ConfigTX exists
    dirty,     \* ConfigTX.dirty
    now,       \* SystemTime::now() in seconds since the epoch
    gp,        \* get_a_peer's frame while its loop runs: [active, attempt, earlier, n_peers]
    ret,       \* what the last ConfigTX call returned
    ncalls,    \* number of ConfigTX calls issued so far
    cin,       \* codec: the eight words given
    ckey,      \* codec: the key string built from them
    cout,      \* codec: the eight words decoded from the key
    cpc,       \* codec: "in" | "encoded" | "decoded"
    mailbox,   \* the sync_channel between the PeerMessageSender handles and run()
    senders,   \* PeerMessageSender handles still alive
    budget,    \* messages the producers will still enqueue, -1: without end
    msgs,      \* the messages the producers choose from
    wpc,       \* the worker: "recv" | "dispatch" | "returning" | "panicked"
    cur,       \* the message run() has received
    lock,      \* the chain index RwLock: [readers, writer, poisoned]
    chain,     \* the chain index: [tip, noBody, bad]
    grown,     \* headers the writer has added to the trunk
    sent,      \* the P2PControl::Send made for cur, in order
    result,    \* what the handler of cur returned: "none" | "ok" | "err"
    logged,    \* whether run() has logged a handler error
    sending,   \* the message of the send call under way, NoMsg when there is none
    hist       \* the messages accepted and handled so far: [on, accepted, handled]

storeVars == <<db, tx, scope, dirty, now, gp, ret, ncalls>>
codecVars == <<cin, ckey, cout, cpc>>
bsVars == <<mailbox, senders, budget, msgs, wpc, cur, lock, chain, grown, sent, result, logged,
            sending, hist>>
vars == <<db, tx, scope, dirty, now, gp, ret, ncalls, cin, ckey, cout, cpc,
          mailbox, senders, budget, msgs, wpc, cur, lock, chain, grown, sent, result, logged,
          sending, hist>>

-----------------------------------------------------------------------------
(* Bounds of the model *)

\* largest rowid the peers table may hand out
MaxRowid == 3
\* ConfigTX calls issued in one run
MaxCalls == 3
\* the clock moves by one second at most this often after each long jump
MaxJitter == 1
\* the clock stops here
MaxNow == 2882
\* store_peer, ban and remove_peer calls behind the table get_a_peer is run on
MaxHistory == 3

\* messages the producers enqueue in one run of the block server
MaxRequests == 1
\* headers the chain writer adds to the trunk in one run
MaxGrowth == 1
\* messages the producers send in a recorded burst
MaxBurst == 3

(* Program constants *)

\* blockserver.rs:44  const BACK_PRESSURE
BACK_PRESSURE == 10
\* blockserver.rs:81  take(2000)
MaxHeaders == 2000
\* blockserver.rs:97  take(500)
MaxBlocks == 500

\* configdb.rs:166  2*24*60
BanWindow == 2880
\* configdb.rs:191  for _ in 0 .. 100
MaxAttempts == 100

-----------------------------------------------------------------------------
(* Address key codec: configdb.rs:141-144 (encode), 198-204 (decode) *)

HexChars == <<"0","1","2","3","4","5","6","7","8","9","a","b","c","d","e","f">>
UpperHexChars == <<"0","1","2","3","4","5","6","7","8","9","A","B","C","D","E","F">>

\* the digits of d in base 16, lowercase, no leading zero: what {:x} prints
RECURSIVE LowerHex(_)
LowerHex(d) ==
    IF d < 16 THEN <<HexChars[d + 1]>>
    ELSE LowerHex(d \div 16) \o <<HexChars[(d % 16) + 1]>>

\* right-align s in a field of w characters, filling with spaces: the width of {:4x}
RECURSIVE PadLeft(_, _)
PadLeft(s, w) == IF Len(s) >= w THEN s ELSE PadLeft(<<" ">> \o s, w)

\* format!("{:4x}", d)
Fmt4x(d) == PadLeft(LowerHex(d), 4)

\* the loop of store_peer / ban / remove_peer building the key string
RECURSIVE KeyFrom(_, _)
KeyFrom(words, i) ==
    IF i > Len(words) THEN <<>> ELSE Fmt4x(words[i]) \o KeyFrom(words, i + 1)

KeyOf(words) == KeyFrom(words, 1)

\* char::to_digit(16): the value of a hex digit, -1 for any other character
ToDigit(c) ==
    IF \E i \in 1..16 : HexChars[i] = c
    THEN (CHOOSE i \in 1..16 : HexChars[i] = c) - 1
    ELSE IF \E i \in 1..16 : UpperHexChars[i] = c
    THEN (CHOOSE i \in 1..16 : UpperHexChars[i] = c) - 1
    ELSE -1

RECURSIVE DigitsValue(_, _)
DigitsValue(s, acc) ==
    IF s = <<>> THEN acc
    ELSE IF ToDigit(Head(s)) < 0 THEN -1
    ELSE DigitsValue(Tail(s), acc * 16 + ToDigit(Head(s)))

\* u16::from_str_radix(s, 16): the value, or -1 for Err (empty, a character that
\* is no digit, or a value above 0xffff); one leading "+" is accepted
FromStrRadix16(s) ==
    LET digits == IF s # <<>> /\ Head(s) = "+" THEN Tail(s) ELSE s
        v == DigitsValue(digits, 0)
    IN IF digits = <<>> \/ v < 0 \/ v > 65535 THEN -1 ELSE v

\* the loop of get_a_peer: split_at(4) eight times, unwrap_or(0) each group
DecodeKey(key) ==
    [i \in 1..8 |->
        LET v == FromStrRadix16(SubSeq(key, 4 * i - 3, 4 * i))
        IN IF v < 0 THEN 0 ELSE v]


-----------------------------------------------------------------------------
(* Addresses: bitcoin::network::address::Address and std::net::SocketAddr as
   configdb.rs uses them *)

\* 10.0.0.1 as eight words (IPv4-mapped)
AddrLow == <<0, 0, 0, 0, 0, 65535, 2560, 1>>
\* 203.0.113.17 as eight words (IPv4-mapped)
AddrHigh == <<0, 0, 0, 0, 0, 65535, 51968, 28945>>

\* the Address values callers pass to store_peer
PeerArgs ==
    { [address |-> AddrLow,  port |-> 8333,  services |-> 1],
      [address |-> AddrLow,  port |-> 18333, services |-> 9],
      [address |-> AddrHigh, port |-> 8333,  services |-> 1] }

\* the SocketAddr values callers pass to ban and remove_peer
SockArgs ==
    { [ip |-> AddrLow,  port |-> 8333],
      [ip |-> AddrLow,  port |-> 18333],
      [ip |-> AddrHigh, port |-> 8333] }

\* the exclusion sets callers pass to get_a_peer
EarlierArgs ==
    { {},
      {[ip |-> AddrHigh, port |-> 8333]},
      {[ip |-> AddrLow, port |-> 8333], [ip |-> DecodeKey(KeyOf(AddrLow)), port |-> 8333]} }

LastSeenArgs == {5, 7}
BannedUntilArgs == {0, 3000}

\* Address::new(addr, services): the eight words and the port of a socket address
AddressNew(addr, services) ==
    [address |-> addr.ip, port |-> addr.port, services |-> services]

\* the Err of Address::socket_addr()
SocketAddrErr == [ip |-> <<>>, port |-> -1]

\* Address::socket_addr(): Err for an onion address, else the socket address; an
\* IPv4-compatible address (::a.b.c.d) and the IPv4-mapped one name the same V4 socket
SocketAddrOf(peer) ==
    LET a == peer.address IN
    IF SubSeq(a, 1, 3) = <<64903, 55422, 60227>> THEN SocketAddrErr
    ELSE IF SubSeq(a, 1, 5) = <<0, 0, 0, 0, 0>> /\ a[6] \in {0, 65535}
    THEN [ip |-> <<0, 0, 0, 0, 0, 65535, a[7], a[8]>>, port |-> peer.port]
    ELSE [ip |-> a, port |-> peer.port]

-----------------------------------------------------------------------------
(* Database content and the statements ConfigTX runs on it *)

NoRows == [r \in {} |-> 0]

\* a database just opened: no table exists
EmptyDB == [schema |-> {}, peers |-> NoRows, birth |-> <<>>]

Max(S) == CHOOSE x \in S : \A y \in S : y <= x

\* the rowid SQLite gives an inserted row: one more than the largest in the table
NextRowid(c) == IF DOMAIN c.peers = {} THEN 1 ELSE Max(DOMAIN c.peers) + 1

\* select rowid from peers where address = ?
RowsWithKey(c, key) == {r \in DOMAIN c.peers : c.peers[r].address = key}

\* ConfigTX::get_birth: the first inception row, -1 for Err (no table or no row)
get_birth(c) ==
    IF "birth" \notin c.schema \/ c.birth = <<>> THEN -1 ELSE c.birth[1]

\* mutant: the bootstrap inserts a birth row whether or not one is stored
CreateTablesAlwaysInsert(c, t) ==
    [c EXCEPT !.schema = c.schema \cup {"peers", "birth"},
              !.birth = Append(c.birth, t)]

\* ConfigTX::create_tables at time t
CreateTables(c, t) ==
    LET c1 == [c EXCEPT !.schema = c.schema \cup {"peers", "birth"}]
    IN IF get_birth(c1) < 0 THEN [c1 EXCEPT !.birth = Append(c1.birth, t)] ELSE c1

\* mutant: the update branch also rewrites banned_until, port and services
StorePeerOverwrite(c, address, last_seen, banned_until) ==
    LET key == KeyOf(address.address)
        row == [address |-> key, port |-> address.port, services |-> address.services,
                last_seen |-> last_seen, banned_until |-> banned_until]
        hit == RowsWithKey(c, key)
    IN IF hit # {}
       THEN [c EXCEPT !.peers = [r \in DOMAIN c.peers |-> IF r \in hit THEN row ELSE c.peers[r]]]
       ELSE [c EXCEPT !.peers = [r \in DOMAIN c.peers \cup {NextRowid(c)} |->
                                    IF r \in DOMAIN c.peers THEN c.peers[r] ELSE row]]

\* ConfigTX::store_peer on a database that has the peers table
StorePeer(c, address, last_seen, banned_until) ==
    LET key == KeyOf(address.address)
        row == [address |-> key, port |-> address.port, services |-> address.services,
                last_seen |-> last_seen, banned_until |-> banned_until]
        hit == RowsWithKey(c, key)
    IN IF hit # {}
       THEN [c EXCEPT !.peers = [r \in DOMAIN c.peers |->
                                    IF r \in hit THEN [c.peers[r] EXCEPT !.last_seen = last_seen]
                                    ELSE c.peers[r]]]
       ELSE [c EXCEPT !.peers = [r \in DOMAIN c.peers \cup {NextRowid(c)} |->
                                    IF r \in DOMAIN c.peers THEN c.peers[r] ELSE row]]

\* mutant: a ban never shortens a ban already stored
BanKeepLater(c, addr, t) ==
    LET key == KeyOf(AddressNew(addr, 0).address)
    IN [c EXCEPT !.peers = [r \in DOMAIN c.peers |->
            IF c.peers[r].address = key /\ c.peers[r].banned_until < t + BanWindow
            THEN [c.peers[r] EXCEPT !.banned_until = t + BanWindow]
            ELSE c.peers[r]]]

\* ConfigTX::ban at time t on a database that has the peers table
Ban(c, addr, t) ==
    LET key == KeyOf(AddressNew(addr, 0).address)
    IN [c EXCEPT !.peers = [r \in DOMAIN c.peers |->
            IF c.peers[r].address = key
            THEN [c.peers[r] EXCEPT !.banned_until = t + BanWindow]
            ELSE c.peers[r]]]

\* ConfigTX::remove_peer on a database that has the peers table
RemovePeer(c, addr) ==
    LET key == KeyOf(AddressNew(addr, 0).address)
        keep == {r \in DOMAIN c.peers : c.peers[r].address # key}
    IN [c EXCEPT !.peers = [r \in keep |-> c.peers[r]]]

\* mutant: a row banned until this very second is fetched
FetchableThrough(c, rowid, t) ==
    rowid \in DOMAIN c.peers /\ c.peers[rowid].banned_until <= t

\* get_a_peer's query: where rowid = ? and banned_until < ?
Fetchable(c, rowid, t) ==
    rowid \in DOMAIN c.peers /\ c.peers[rowid].banned_until < t

\* the Address get_a_peer builds from a fetched row
PeerOfRow(row) ==
    [address |-> DecodeKey(row.address), port |-> row.port, services |-> row.services]

\* the values (rng.next_u64() as i64) % n_peers + 1 can take
DrawRange(n) == (2 - n)..n


-----------------------------------------------------------------------------
(* The peer store: ConfigDB::transaction and the ConfigTX calls *)

NoPeer == [address |-> <<>>, port |-> 0, services |-> 0]

\* the record kept of the last call: its name, outcome and arguments; for
\* get_a_peer the Address returned, the rowid drawn, the clock read and the passes
\* made; for ban the clock read, the rows changed and what they held before
Ret(op, res, args) ==
    [op |-> op, res |-> res, args |-> args, peer |-> NoPeer, rowid |-> 0, at |-> 0, n |-> 0,
     was |-> {}]

IdleFrame == [active |-> FALSE, attempt |-> 0, earlier |-> {}, n_peers |-> 0]

codecIdle ==
    /\ cin = <<>>
    /\ ckey = <<>>
    /\ cout = <<>>
    /\ cpc = "idle"

\* no message: what cur holds while run() waits in recv
NoMsg == [kind |-> "None", pid |-> 0, type |-> "None", locator_hashes |-> <<>>, inventory |-> <<>>]

\* no record of the messages is kept
NoHistory == [on |-> FALSE, accepted |-> <<>>, handled |-> <<>>]

bsIdle ==
    /\ mailbox = <<>>
    /\ senders = 0
    /\ budget = 0
    /\ msgs = {}
    /\ wpc = "idle"
    /\ cur = NoMsg
    /\ lock = [readers |-> 0, writer |-> FALSE, poisoned |-> FALSE]
    /\ chain = [tip |-> 0, noBody |-> {}, bad |-> {}]
    /\ grown = 0
    /\ sent = <<>>
    /\ result = "none"
    /\ logged = FALSE
    /\ sending = NoMsg
    /\ hist = NoHistory

InitStore ==
    /\ db = EmptyDB
    /\ tx = EmptyDB
    /\ scope = "closed"
    /\ dirty = FALSE
    /\ now = 1
    /\ gp = IdleFrame
    /\ ret = Ret("open", "ok", <<>>)
    /\ ncalls = 0

Init == InitStore /\ codecIdle /\ bsIdle

\* a caller may issue a ConfigTX call
CanCall == scope = "open" /\ ~gp.active /\ ncalls < MaxCalls

\* ConfigDB::transaction
transaction ==
    /\ scope = "closed"
    /\ scope' = "open"
    /\ tx' = db
    /\ dirty' = FALSE
    /\ ret' = Ret("transaction", "ok", <<>>)
    /\ UNCHANGED <<db, now, gp, ncalls, codecVars, bsVars>>

\* what the database holds after ConfigTX::commit
Committed(stored, working, d) == IF d THEN working ELSE stored

\* mutant: a rollback keeps the statements of the scope
RolledBackKeeps(stored, working) == working

\* what the database holds after ConfigTX::rollback, or after the drop of a
\* ConfigTX that was never finalized (rusqlite rolls back on drop)
RolledBack(stored, working) == stored

\* ConfigTX::commit
commit ==
    /\ scope = "open"
    /\ ~gp.active
    /\ db' = Committed(db, tx, dirty)
    /\ tx' = db'
    /\ scope' = "closed"
    /\ dirty' = FALSE
    /\ ret' = Ret("commit", "ok", <<dirty>>)
    /\ UNCHANGED <<now, gp, ncalls, codecVars, bsVars>>

\* ConfigTX::rollback
rollback ==
    /\ scope = "open"
    /\ ~gp.active
    /\ db' = RolledBack(db, tx)
    /\ tx' = db'
    /\ scope' = "closed"
    /\ dirty' = FALSE
    /\ ret' = Ret("rollback", "ok", <<dirty>>)
    /\ UNCHANGED <<now, gp, ncalls, codecVars, bsVars>>

\* a ConfigTX going out of scope without commit or rollback
abandon ==
    /\ scope = "open"
    /\ ~gp.active
    /\ db' = RolledBack(db, tx)
    /\ tx' = db'
    /\ scope' = "closed"
    /\ dirty' = FALSE
    /\ ret' = Ret("drop", "ok", <<dirty>>)
    /\ UNCHANGED <<now, gp, ncalls, codecVars, bsVars>>

\* ConfigTX::create_tables
create_tables ==
    /\ CanCall
    /\ dirty' = TRUE
    /\ tx' = CreateTables(tx, now)
    /\ ret' = Ret("create_tables", "ok", <<now>>)
    /\ ncalls' = ncalls + 1
    /\ UNCHANGED <<db, scope, now, gp, codecVars, bsVars>>

\* ConfigTX::store_peer
store_peer ==
    /\ CanCall
    /\ \E address \in PeerArgs, last_seen \in LastSeenArgs, banned_until \in BannedUntilArgs :
        /\ dirty' = TRUE
        /\ IF "peers" \in tx.schema
           THEN /\ RowsWithKey(tx, KeyOf(address.address)) # {} \/ NextRowid(tx) <= MaxRowid
                /\ tx' = StorePeer(tx, address, last_seen, banned_until)
                /\ ret' = Ret("store_peer", "ok", <<address, last_seen, banned_until>>)
           ELSE /\ tx' = tx
                /\ ret' = Ret("store_peer", "err_db", <<address, last_seen, banned_until>>)
    /\ ncalls' = ncalls + 1
    /\ UNCHANGED <<db, scope, now, gp, codecVars, bsVars>>

\* ConfigTX::ban
ban ==
    /\ CanCall
    /\ \E addr \in SockArgs :
        /\ dirty' = TRUE
        /\ IF "peers" \in tx.schema
           THEN /\ tx' = Ban(tx, addr, now)
                /\ ret' = [Ret("ban", "ok", <<addr>>) EXCEPT
                             !.n = Cardinality(RowsWithKey(tx, KeyOf(AddressNew(addr, 0).address))),
                             !.at = now,
                             !.was = {tx.peers[r].banned_until :
                                        r \in RowsWithKey(tx, KeyOf(AddressNew(addr, 0).address))}]
           ELSE /\ tx' = tx
                /\ ret' = Ret("ban", "err_db", <<addr>>)
    /\ ncalls' = ncalls + 1
    /\ UNCHANGED <<db, scope, now, gp, codecVars, bsVars>>

\* ConfigTX::remove_peer
remove_peer ==
    /\ CanCall
    /\ \E addr \in SockArgs :
        /\ dirty' = TRUE
        /\ IF "peers" \in tx.schema
           THEN /\ tx' = RemovePeer(tx, addr)
                /\ ret' = [Ret("remove_peer", "ok", <<addr>>) EXCEPT
                             !.n = Cardinality(RowsWithKey(tx, KeyOf(AddressNew(addr, 0).address)))]
           ELSE /\ tx' = tx
                /\ ret' = Ret("remove_peer", "err_db", <<addr>>)
    /\ ncalls' = ncalls + 1
    /\ UNCHANGED <<db, scope, now, gp, codecVars, bsVars>>

\* ConfigTX::get_a_peer up to its loop: the count query and the empty-table return
get_a_peer ==
    /\ CanCall
    /\ \E earlier \in EarlierArgs :
        IF "peers" \notin tx.schema
        THEN /\ ret' = Ret("get_a_peer", "err_db", <<earlier>>)
             /\ gp' = gp
        ELSE IF Cardinality(DOMAIN tx.peers) = 0
        THEN /\ ret' = Ret("get_a_peer", "no_peers", <<earlier>>)
             /\ gp' = gp
        ELSE /\ ret' = Ret("get_a_peer", "running", <<earlier>>)
             /\ gp' = [active |-> TRUE, attempt |-> 0, earlier |-> earlier,
                       n_peers |-> Cardinality(DOMAIN tx.peers)]
    /\ ncalls' = ncalls + 1
    /\ UNCHANGED <<db, tx, scope, dirty, now, codecVars, bsVars>>

\* mutant: the loop has no last pass
LastPassNever(attempt) == FALSE

\* whether the pass begun after `attempt` passes is the last of for _ in 0 .. 100
LastPass(attempt) == attempt + 1 = MaxAttempts

\* one pass of get_a_peer's loop: a draw, the fetch, the decode and the exclusion
\* test; the hundredth failing pass returns NoPeers
get_a_peer_draw ==
    /\ gp.active
    /\ gp.attempt < MaxAttempts
    /\ \E rowid \in DrawRange(gp.n_peers) :
        LET peer == PeerOfRow(tx.peers[rowid])
        IN IF /\ Fetchable(tx, rowid, now)
              /\ SocketAddrOf(peer) # SocketAddrErr
              /\ SocketAddrOf(peer) \notin gp.earlier
           THEN /\ ret' = [Ret("get_a_peer", "ok", <<gp.earlier>>) EXCEPT
                             !.peer = peer, !.rowid = rowid, !.at = now, !.n = gp.attempt + 1]
                /\ gp' = IdleFrame
           ELSE IF LastPass(gp.attempt)
           THEN /\ ret' = [Ret("get_a_peer", "no_peers", <<gp.earlier>>) EXCEPT
                             !.n = gp.attempt + 1]
                /\ gp' = IdleFrame
           ELSE /\ ret' = ret
                /\ gp' = [gp EXCEPT !.attempt = gp.attempt + 1]
    /\ UNCHANGED <<db, tx, scope, dirty, now, ncalls, codecVars, bsVars>>

\* time passes: by a second, or by a ban window
Tick ==
    /\ \E d \in {1, BanWindow} :
        /\ now + d <= MaxNow
        /\ d = 1 => (now % BanWindow) <= MaxJitter
        /\ now' = now + d
    /\ UNCHANGED <<db, tx, scope, dirty, gp, ret, ncalls, codecVars, bsVars>>

Next ==
    \/ transaction
    \/ commit
    \/ rollback
    \/ abandon
    \/ create_tables
    \/ store_peer
    \/ ban
    \/ remove_peer
    \/ Tick

Spec == Init /\ [][Next]_vars


-----------------------------------------------------------------------------
(* get_a_peer on the tables its callers can have built *)

\* the tables one more store_peer, ban or remove_peer call at time t leads to
OneMoreCall(S, t) ==
    S \cup { StorePeer(c, a, 5, b) : c \in {x \in S : NextRowid(x) <= MaxRowid},
                                      a \in PeerArgs, b \in BannedUntilArgs }
      \cup { Ban(c, addr, t) : c \in S, addr \in SockArgs }
      \cup { RemovePeer(c, addr) : c \in S, addr \in SockArgs }

\* the tables reachable from a bootstrapped database by at most k such calls
RECURSIVE TablesAfter(_, _)
TablesAfter(k, t) ==
    IF k = 0 THEN {CreateTables(EmptyDB, t)} ELSE OneMoreCall(TablesAfter(k - 1, t), t)

\* a scope just opened on a committed table, its caller about to draw a peer
InitDraw ==
    /\ db \in TablesAfter(MaxHistory, 1)
    /\ tx = db
    /\ scope = "open"
    /\ dirty = FALSE
    /\ now = 1
    /\ gp = IdleFrame
    /\ ret = Ret("transaction", "ok", <<>>)
    /\ ncalls = MaxCalls - 1
    /\ codecIdle
    /\ bsIdle

NextDraw ==
    \/ get_a_peer
    \/ get_a_peer_draw
    \/ Tick

SpecDraw == InitDraw /\ [][NextDraw]_vars

\* one call of get_a_peer and nothing beside it
NextCall ==
    \/ get_a_peer
    \/ get_a_peer_draw

\* the call with the caller's thread running: a loop pass that can be made is made
SpecCall == InitDraw /\ [][NextCall]_vars /\ WF_vars(get_a_peer_draw)


-----------------------------------------------------------------------------
(* Claims on the peer store *)

\* C1: whenever get_a_peer returns an address, its socket address is not in the
\* exclusion set given, and the row it was read from holds a banned_until strictly
\* below the clock value read for that draw
C1_NeverExcludedNorBanned ==
    (ret.op = "get_a_peer" /\ ret.res = "ok") =>
        /\ SocketAddrOf(ret.peer) \notin ret.args[1]
        /\ ret.rowid \in DOMAIN tx.peers
        /\ ~(tx.peers[ret.rowid].banned_until >= ret.at)

\* a peer was returned although the caller excluded addresses and the table holds
\* a row still banned at the time of the draw
C1_Witness ==
    /\ ret.op = "get_a_peer"
    /\ ret.res = "ok"
    /\ ret.args[1] # {}
    /\ \E r \in DOMAIN tx.peers : tx.peers[r].banned_until >= ret.at

\* the step is the return of the ConfigTX call named op
Returned(op) == ret'.op = op /\ scope = "open" /\ (ncalls' = ncalls + 1 \/ scope' = "closed")

\* C2: the committed database changes only in a commit of a dirty scope; a
\* rollback and an abandoned scope leave it as it was; the commit of a scope
\* that is not dirty succeeds and leaves it as it was
C2_DurableOnlyByDirtyCommit ==
    [][ /\ (db' # db => Returned("commit") /\ dirty)
        /\ (Returned("rollback") \/ Returned("drop") => db' = db)
        /\ (Returned("commit") /\ ~dirty => db' = db /\ ret'.res = "ok") ]_vars

\* a scope that had run mutating calls on an existing database was rolled back
C2_Witness ==
    /\ ret.op \in {"rollback", "drop"}
    /\ ret.args[1] = TRUE
    /\ "peers" \in db.schema
    /\ scope = "closed"

\* C4: store_peer for a key already stored changes last_seen of that one row and
\* nothing else, whatever port, services and banned_until it is given, and adds
\* no row; for an absent key it adds exactly one row holding the fields given
C4_StorePeerUpdatesOnlyLastSeen ==
    [][ (Returned("store_peer") /\ ret'.res = "ok") =>
          LET a == ret'.args[1]
              key == KeyOf(a.address)
              hit == {r \in DOMAIN tx.peers : tx.peers[r].address = key}
          IN /\ tx'.schema = tx.schema
             /\ tx'.birth = tx.birth
             /\ Cardinality({r \in DOMAIN tx'.peers : tx'.peers[r].address = key}) = 1
             /\ IF hit # {}
                THEN /\ DOMAIN tx'.peers = DOMAIN tx.peers
                     /\ \A r \in DOMAIN tx.peers :
                          /\ tx'.peers[r].address = tx.peers[r].address
                          /\ tx'.peers[r].port = tx.peers[r].port
                          /\ tx'.peers[r].services = tx.peers[r].services
                          /\ tx'.peers[r].banned_until = tx.peers[r].banned_until
                          /\ tx'.peers[r].last_seen =
                                IF r \in hit THEN ret'.args[2] ELSE tx.peers[r].last_seen
                ELSE \E new \in DOMAIN tx'.peers \ DOMAIN tx.peers :
                     /\ DOMAIN tx'.peers = DOMAIN tx.peers \cup {new}
                     /\ \A r \in DOMAIN tx.peers : tx'.peers[r] = tx.peers[r]
                     /\ tx'.peers[new] =
                          [address |-> key, port |-> a.port, services |-> a.services,
                           last_seen |-> ret'.args[2], banned_until |-> ret'.args[3]] ]_vars

\* store_peer returned for a stored key with a port, services and banned_until
\* other than the stored ones: the row kept them and took the last_seen given
C4_Witness ==
    /\ ret.op = "store_peer"
    /\ ret.res = "ok"
    /\ \E r \in DOMAIN tx.peers :
        /\ tx.peers[r].address = KeyOf(ret.args[1].address)
        /\ tx.peers[r].port # ret.args[1].port
        /\ tx.peers[r].services # ret.args[1].services
        /\ tx.peers[r].banned_until # ret.args[3]
        /\ tx.peers[r].last_seen = ret.args[2]

\* C5: ban sets banned_until of the rows whose key is the key of the network
\* address given (the port plays no part) to the clock value plus 2880, whatever
\* they held, and changes no other field, no other row and no other table
C5_BanSetsExactWindow ==
    [][ (Returned("ban") /\ ret'.res = "ok") =>
          LET key == KeyOf(ret'.args[1].ip)
          IN /\ tx'.schema = tx.schema
             /\ tx'.birth = tx.birth
             /\ DOMAIN tx'.peers = DOMAIN tx.peers
             /\ \A r \in DOMAIN tx.peers :
                  IF tx.peers[r].address = key
                  THEN tx'.peers[r] = [tx.peers[r] EXCEPT !.banned_until = now + 2880]
                  ELSE tx'.peers[r] = tx.peers[r] ]_vars

\* a ban given another port than the stored one replaced a later banned_until by
\* an earlier one
C5_Witness ==
    /\ ret.op = "ban"
    /\ ret.res = "ok"
    /\ ret.n = 1
    /\ \E r \in DOMAIN tx.peers :
        /\ tx.peers[r].address = KeyOf(ret.args[1].ip)
        /\ tx.peers[r].port # ret.args[1].port
        /\ tx.peers[r].banned_until = ret.at + 2880
        /\ \A w \in ret.was : w > tx.peers[r].banned_until

\* C6: once the birth table exists it holds exactly one row, in the committed
\* database and in every scope, and the committed inception value never changes
C6_OneBirthRowKept ==
    /\ []( /\ ("birth" \in db.schema => Len(db.birth) = 1)
           /\ ("birth" \in tx.schema => Len(tx.birth) = 1) )
    /\ [][ db.birth # <<>> => db'.birth = db.birth ]_vars

\* create_tables ran again, later than the committed inception, and left the row
C6_Witness ==
    /\ ret.op = "create_tables"
    /\ db.birth # <<>>
    /\ ret.args[1] > db.birth[1]
    /\ tx.birth = db.birth


-----------------------------------------------------------------------------
(* The address key codec on sampled addresses *)

\* 16-bit words around the widths {:4x} pads: one to four hex digits
WordSamples == {0, 1, 2560, 4096, 65535}

\* eight-word addresses: the two peers above, and every address that holds one
\* sampled word at one place and another sampled word at the seven others
AddressSamples ==
    {AddrLow, AddrHigh} \cup
    { [i \in 1..8 |-> IF i = k THEN w ELSE v] : k \in 1..8, w \in WordSamples, v \in WordSamples }

InitCodec ==
    /\ InitStore
    /\ bsIdle
    /\ cin \in AddressSamples
    /\ ckey = <<>>
    /\ cout = <<>>
    /\ cpc = "in"

\* the key loop of store_peer, ban and remove_peer (configdb.rs:141-144)
EncodeKey ==
    /\ cpc = "in"
    /\ ckey' = KeyOf(cin)
    /\ cpc' = "encoded"
    /\ UNCHANGED <<cin, cout, storeVars, bsVars>>

\* the decode loop of get_a_peer (configdb.rs:198-204)
DecodeStoredKey ==
    /\ cpc = "encoded"
    /\ cout' = DecodeKey(ckey)
    /\ cpc' = "decoded"
    /\ UNCHANGED <<cin, ckey, storeVars, bsVars>>

NextCodec ==
    \/ EncodeKey
    \/ DecodeStoredKey

SpecCodec == InitCodec /\ [][NextCodec]_vars

\* C3: decoding the key built from eight 16-bit words gives the eight words back
C3_RoundTrip ==
    cpc = "decoded" => cout = cin

\* every key is 32 characters long, four per word
C3_KeyLength ==
    cpc # "in" => Len(ckey) = 32


-----------------------------------------------------------------------------
(* The chain index as BlockServer reads it (chaindb: is_on_trunk, iter_to_tip,
   get_header, fetch_block_by_ref).  A block is named by its height on the
   trunk, 0..tip; a negative hash names no stored header. *)

NoHeader == [header |-> -1, block |-> -1]

\* chaindb.is_on_trunk(hash)
is_on_trunk(c, hash) == hash \in 0..c.tip

\* chaindb.iter_to_tip(hash): the trunk positions after hash up to the tip, in order
iter_to_tip(c, hash) == [k \in 1..(c.tip - hash) |-> hash + k]

\* chaindb.get_header(id): the stored header with its optional body reference
\* (block = -1 for None), NoHeader for None
get_header(c, id) ==
    IF id \in 0..c.tip
    THEN [header |-> id, block |-> IF id \in c.noBody THEN -1 ELSE id]
    ELSE NoHeader

\* chaindb.fetch_block_by_ref(pref): the body, or Err
FetchFails(c, pref) == pref \in c.bad
fetch_block_by_ref(c, pref) == [txdata |-> <<pref>>]

\* Iterator::take(n) on a finite sequence
Take(seq, n) == SubSeq(seq, 1, IF Len(seq) < n THEN Len(seq) ELSE n)

-----------------------------------------------------------------------------
(* Messages *)

\* PeerMessage::Message(pid, NetworkMessage::GetHeaders(get))
GetHeadersMsg(pid, locs) ==
    [kind |-> "Message", pid |-> pid, type |-> "GetHeaders", locator_hashes |-> locs, inventory |-> <<>>]
\* PeerMessage::Message(pid, NetworkMessage::GetBlocks(get))
GetBlocksMsg(pid, locs) ==
    [kind |-> "Message", pid |-> pid, type |-> "GetBlocks", locator_hashes |-> locs, inventory |-> <<>>]
\* PeerMessage::Message(pid, NetworkMessage::GetData(get))
GetDataMsg(pid, invs) ==
    [kind |-> "Message", pid |-> pid, type |-> "GetData", locator_hashes |-> <<>>, inventory |-> invs]
\* PeerMessage::Message(pid, any other NetworkMessage)
PingMsg(pid) ==
    [kind |-> "Message", pid |-> pid, type |-> "Ping", locator_hashes |-> <<>>, inventory |-> <<>>]
\* any PeerMessage that is no PeerMessage::Message
ConnectedMsg(pid) ==
    [kind |-> "Connected", pid |-> pid, type |-> "None", locator_hashes |-> <<>>, inventory |-> <<>>]

\* P2PControl::Send(peer, NetworkMessage::Headers(headers))
SendHeaders(peer, headers) == [to |-> peer, type |-> "Headers", headers |-> headers]
\* P2PControl::Send(peer, NetworkMessage::Block(Block{header, txdata}))
SendBlock(peer, header, txdata) ==
    [to |-> peer, type |-> "Block", header |-> header, txdata |-> txdata]

\* LoneBlockHeader{header, tx_count: VarInt(0)}
LoneBlockHeader(header) == [header |-> header, tx_count |-> 0]

-----------------------------------------------------------------------------
(* The handlers: what each sends and returns, reading the chain index c *)

Outcome(sends, res) == [sent |-> sends, result |-> res]

\* mutant: every header up to the tip is collected, whatever their number
HeadersFromUncapped(c, peer, locator) ==
    LET ids == iter_to_tip(c, locator)
        headers == [k \in 1..Len(ids) |-> LoneBlockHeader(get_header(c, ids[k]).header)]
    IN IF Len(headers) > 0 THEN <<SendHeaders(peer, headers)>> ELSE <<>>

\* the body of get_headers for one locator on the trunk
HeadersFrom(c, peer, locator) ==
    LET ids == Take(iter_to_tip(c, locator), MaxHeaders)
        headers == [k \in 1..Len(ids) |-> LoneBlockHeader(get_header(c, ids[k]).header)]
    IN IF Len(headers) > 0 THEN <<SendHeaders(peer, headers)>> ELSE <<>>

\* mutant: the scan goes on after a match, the last locator on the trunk decides
RECURSIVE get_headers_last_match(_, _, _, _)
get_headers_last_match(c, peer, locs, i) ==
    IF i > Len(locs) THEN Outcome(<<>>, "ok")
    ELSE LET rest == get_headers_last_match(c, peer, locs, i + 1)
         IN IF is_on_trunk(c, locs[i]) /\ \A j \in (i + 1)..Len(locs) : ~is_on_trunk(c, locs[j])
            THEN Outcome(HeadersFrom(c, peer, locs[i]), "ok")
            ELSE rest

\* BlockServer::get_headers from locator i on
RECURSIVE get_headers(_, _, _, _)
get_headers(c, peer, locs, i) ==
    IF i > Len(locs) THEN Outcome(<<>>, "ok")
    ELSE IF is_on_trunk(c, locs[i])
    THEN Outcome(HeadersFrom(c, peer, locs[i]), "ok")
    ELSE get_headers(c, peer, locs, i + 1)

\* mutant: a body that cannot be fetched does not end the walk
FirstFailureIgnored(c, ids) == Len(ids) + 1

\* the first position of ids whose stored body cannot be fetched, Len(ids)+1 if none
FirstFailure(c, ids) ==
    LET failing == {k \in 1..Len(ids) :
                      get_header(c, ids[k]).block # -1 /\ FetchFails(c, get_header(c, ids[k]).block)}
    IN IF failing = {} THEN Len(ids) + 1 ELSE CHOOSE k \in failing : \A j \in failing : k <= j

\* the Block messages for the headers of ids that reference a stored body
BlocksOf(c, peer, ids) ==
    LET HasBody(id) == get_header(c, id).block # -1
        served == SelectSeq(ids, HasBody)
    IN [k \in 1..Len(served) |->
          SendBlock(peer, get_header(c, served[k]).header,
                    fetch_block_by_ref(c, get_header(c, served[k]).block).txdata)]

\* mutant: only positions that have a body count towards the 500
BlocksFromCountingBodies(c, peer, locator) ==
    LET HasBody(id) == get_header(c, id).block # -1
        ids == Take(SelectSeq(iter_to_tip(c, locator), HasBody), MaxBlocks)
        stop == FirstFailure(c, ids)
    IN Outcome(BlocksOf(c, peer, SubSeq(ids, 1, stop - 1)),
               IF stop <= Len(ids) THEN "err" ELSE "ok")

\* the body of get_blocks for one locator on the trunk: one send per position
\* with a body, until a fetch fails
BlocksFrom(c, peer, locator) ==
    LET ids == Take(iter_to_tip(c, locator), MaxBlocks)
        stop == FirstFailure(c, ids)
    IN Outcome(BlocksOf(c, peer, SubSeq(ids, 1, stop - 1)),
               IF stop <= Len(ids) THEN "err" ELSE "ok")

\* BlockServer::get_blocks from locator i on
RECURSIVE get_blocks(_, _, _, _)
get_blocks(c, peer, locs, i) ==
    IF i > Len(locs) THEN Outcome(<<>>, "ok")
    ELSE IF is_on_trunk(c, locs[i])
    THEN BlocksFrom(c, peer, locs[i])
    ELSE get_blocks(c, peer, locs, i + 1)

\* mutant: every inventory item that names a stored block is served, whatever its type
RECURSIVE get_data_any_type(_, _, _, _, _)
get_data_any_type(c, peer, invs, i, acc) ==
    IF i > Len(invs) THEN Outcome(acc, "ok")
    ELSE LET inv == invs[i]
             header == get_header(c, inv.hash)
         IN IF header # NoHeader /\ header.block # -1
            THEN IF FetchFails(c, header.block)
                 THEN Outcome(acc, "err")
                 ELSE get_data_any_type(c, peer, invs, i + 1,
                               Append(acc, SendBlock(peer, header.header,
                                                     fetch_block_by_ref(c, header.block).txdata)))
            ELSE get_data_any_type(c, peer, invs, i + 1, acc)

\* BlockServer::get_data from item i on, acc the sends made so far
RECURSIVE get_data(_, _, _, _, _)
get_data(c, peer, invs, i, acc) ==
    IF i > Len(invs) THEN Outcome(acc, "ok")
    ELSE LET inv == invs[i]
             header == get_header(c, inv.hash)
         IN IF inv.inv_type = "WitnessBlock" /\ header # NoHeader /\ header.block # -1
            THEN IF FetchFails(c, header.block)
                 THEN Outcome(acc, "err")
                 ELSE get_data(c, peer, invs, i + 1,
                               Append(acc, SendBlock(peer, header.header,
                                                     fetch_block_by_ref(c, header.block).txdata)))
            ELSE get_data(c, peer, invs, i + 1, acc)

\* whether run() routes the message to a handler, which takes the read lock
IsRequest(m) == m.kind = "Message" /\ m.type \in {"GetHeaders", "GetBlocks", "GetData"}

\* the match of run(): the handler the message is routed to, Ok(()) for the rest
Dispatch(c, m) ==
    IF m.kind = "Message" /\ m.type = "GetHeaders" THEN get_headers(c, m.pid, m.locator_hashes, 1)
    ELSE IF m.kind = "Message" /\ m.type = "GetBlocks" THEN get_blocks(c, m.pid, m.locator_hashes, 1)
    ELSE IF m.kind = "Message" /\ m.type = "GetData" THEN get_data(c, m.pid, m.inventory, 1, <<>>)
    ELSE Outcome(<<>>, "ok")


-----------------------------------------------------------------------------
(* The block server: producers, the worker of BlockServer::run, a chain writer *)

Unlocked == [readers |-> 0, writer |-> FALSE, poisoned |-> FALSE]

\* mutant: the channel takes a message however many it holds
HasRoomAlways(q) == TRUE

\* whether sync_channel(BACK_PRESSURE) has room for one more message
HasRoom(q) == Len(q) < BACK_PRESSURE

\* the record of the messages accepted and handled, when one is kept
Accepted(h, m) == IF h.on THEN [h EXCEPT !.accepted = Append(h.accepted, m)] ELSE h
HandledMsg(h, m) == IF h.on THEN [h EXCEPT !.handled = Append(h.handled, m)] ELSE h

\* a producer calls PeerMessageSender::send with a message
send_call ==
    /\ wpc # "idle"
    /\ senders > 0
    /\ budget # 0
    /\ sending = NoMsg
    /\ \E m \in msgs : sending' = m
    /\ budget' = IF budget > 0 THEN budget - 1 ELSE budget
    /\ UNCHANGED <<mailbox, senders, msgs, wpc, cur, lock, chain, grown, sent, result, logged,
                   hist, storeVars, codecVars>>

\* the send completes: the channel, its receiver alive, has room and takes the
\* message; until then the call blocks
enqueue ==
    /\ sending # NoMsg
    /\ wpc # "panicked"
    /\ HasRoom(mailbox)
    /\ mailbox' = Append(mailbox, sending)
    /\ hist' = Accepted(hist, sending)
    /\ sending' = NoMsg
    /\ UNCHANGED <<senders, budget, msgs, wpc, cur, lock, chain, grown, sent, result, logged,
                   storeVars, codecVars>>

\* the send fails: the receiver is gone, the message comes back in the SendError
send_rejected ==
    /\ sending # NoMsg
    /\ wpc = "panicked"
    /\ sending' = NoMsg
    /\ UNCHANGED <<mailbox, senders, budget, msgs, wpc, cur, lock, chain, grown, sent, result,
                   logged, hist, storeVars, codecVars>>

\* a PeerMessageSender handle is dropped, no send of it under way
drop_sender ==
    /\ wpc # "idle"
    /\ senders > 0
    /\ sending = NoMsg
    /\ senders' = senders - 1
    /\ UNCHANGED <<mailbox, budget, msgs, wpc, cur, lock, chain, grown, sent, result, logged,
                   sending, hist, storeVars, codecVars>>

\* run(): receiver.recv() returns a message
recv ==
    /\ wpc = "recv"
    /\ mailbox # <<>>
    /\ cur' = Head(mailbox)
    /\ mailbox' = Tail(mailbox)
    /\ wpc' = "dispatch"
    /\ UNCHANGED <<senders, budget, msgs, lock, chain, grown, sent, result, logged,
                   sending, hist, storeVars, codecVars>>

\* mutant: recv() fails as soon as the last sender is gone
DisconnectedAtOnce(q, n) == n = 0

\* when recv() on a channel holding q with n senders alive returns Err
Disconnected(q, n) == q = <<>> /\ n = 0

\* run(): receiver.recv() fails, every sender is gone and the channel is empty;
\* the loop ends and the thread panics
recv_disconnected ==
    /\ wpc = "recv"
    /\ Disconnected(mailbox, senders)
    /\ wpc' = "panicked"
    /\ UNCHANGED <<mailbox, senders, budget, msgs, cur, lock, chain, grown, sent, result, logged,
                   sending, hist, storeVars, codecVars>>

\* mutant: the handlers read the chain index without taking the lock
ReadLockSkipped(l) == l

\* chaindb.read(): one more reader holds the lock
ReadLock(l) == [l EXCEPT !.readers = l.readers + 1]

\* mutant: the guard of a handler that returned Err is never dropped
ReadUnlockOkOnly(l, res) == IF res = "err" THEN l ELSE [l EXCEPT !.readers = 0]

\* the drop of the handler's read guard when it returns res
ReadUnlock(l, res) == [l EXCEPT !.readers = 0]

\* run(): the match on the message; a handler takes the read lock, which waits
\* for a writer to release, and runs to its return
handle ==
    /\ wpc = "dispatch"
    /\ IsRequest(cur) => ~lock.writer /\ ~lock.poisoned
    /\ sent' = Dispatch(chain, cur).sent
    /\ result' = Dispatch(chain, cur).result
    /\ lock' = IF IsRequest(cur) THEN ReadLock(lock) ELSE lock
    /\ wpc' = "returning"
    /\ hist' = HandledMsg(hist, cur)
    /\ UNCHANGED <<mailbox, senders, budget, msgs, cur, chain, grown, logged,
                   sending, storeVars, codecVars>>

\* run(): a handler is entered while the lock is poisoned: chaindb.read() is
\* Err, unwrap() panics and the thread ends with the receiver
handle_poisoned ==
    /\ wpc = "dispatch"
    /\ IsRequest(cur)
    /\ ~lock.writer
    /\ lock.poisoned
    /\ wpc' = "panicked"
    /\ UNCHANGED <<mailbox, senders, budget, msgs, cur, lock, chain, grown, sent, result,
                   logged, sending, hist, storeVars, codecVars>>

\* mutant: run() gives up on the first handler error
AfterReturnStopsOnErr(res) == IF res = "err" THEN "panicked" ELSE "recv"

\* run(): where the loop goes after a handler returned res
AfterReturn(res) == "recv"

\* the handler returns: its read guard is dropped, run() logs an Err and loops
handler_return ==
    /\ wpc = "returning"
    /\ lock' = ReadUnlock(lock, result)
    /\ logged' = (logged \/ result = "err")
    /\ wpc' = AfterReturn(result)
    /\ cur' = NoMsg
    /\ sent' = <<>>
    /\ result' = "none"
    /\ UNCHANGED <<mailbox, senders, budget, msgs, chain, grown, sending, hist,
                   storeVars, codecVars>>

\* the chain writer takes the write lock: no reader, no writer holds it
writer_lock ==
    /\ wpc # "idle"
    /\ grown < MaxGrowth
    /\ lock = Unlocked
    /\ lock' = [lock EXCEPT !.writer = TRUE]
    /\ UNCHANGED <<mailbox, senders, budget, msgs, wpc, cur, chain, grown, sent, result, logged,
                   sending, hist, storeVars, codecVars>>

\* the chain writer connects a header with a stored body to the tip and unlocks
writer_accept ==
    /\ lock.writer
    /\ chain' = [chain EXCEPT !.tip = chain.tip + 1]
    /\ grown' = grown + 1
    /\ lock' = [lock EXCEPT !.writer = FALSE]
    /\ UNCHANGED <<mailbox, senders, budget, msgs, wpc, cur, sent, result, logged,
                   sending, hist, storeVars, codecVars>>

\* the chain writer panics holding the write guard: the guard is dropped in the
\* unwinding and the lock is left poisoned
writer_panic ==
    /\ lock.writer
    /\ lock' = [lock EXCEPT !.writer = FALSE, !.poisoned = TRUE]
    /\ UNCHANGED <<mailbox, senders, budget, msgs, wpc, cur, chain, grown, sent, result, logged,
                   sending, hist, storeVars, codecVars>>

NextBS ==
    \/ send_call
    \/ enqueue
    \/ drop_sender
    \/ recv
    \/ recv_disconnected
    \/ handle
    \/ handler_return
    \/ writer_lock
    \/ writer_accept

\* the hashes peers put in locators: one unknown to the index, genesis, height 3
LocatorHashes == {-1, 0, 3}

LocatorLists ==
    {<<>>} \cup {<<a>> : a \in LocatorHashes} \cup {<<a, b>> : a \in LocatorHashes, b \in LocatorHashes}

\* Inventory{inv_type, hash}
Inv(t, h) == [inv_type |-> t, hash |-> h]

Inventories == {Inv("WitnessBlock", -1), Inv("WitnessBlock", 1), Inv("WitnessBlock", 2),
                Inv("WitnessBlock", 3), Inv("Block", 1), Inv("Transaction", 3)}

InventoryLists ==
    {<<>>} \cup {<<a>> : a \in Inventories} \cup {<<a, b>> : a \in Inventories, b \in Inventories}

\* the messages peers send in
Requests ==
    {GetHeadersMsg(1, l) : l \in LocatorLists} \cup {GetBlocksMsg(1, l) : l \in LocatorLists}
    \cup {GetDataMsg(1, l) : l \in InventoryLists} \cup {PingMsg(1), ConnectedMsg(1)}

\* chain indexes: short and long trunks, with bodies missing or unreadable
ChainSamples ==
    { [tip |-> 3,    noBody |-> {},  bad |-> {}],
      [tip |-> 3,    noBody |-> {2}, bad |-> {3}],
      [tip |-> 3,    noBody |-> {},  bad |-> {1}],
      [tip |-> 502,  noBody |-> {2}, bad |-> {}],
      [tip |-> 2003, noBody |-> {},  bad |-> {}] }

\* BlockServer::new: the channel is created and the worker spawned
BlockServerNew ==
    /\ mailbox = <<>>
    /\ senders = 1
    /\ sending = NoMsg
    /\ wpc = "recv"
    /\ cur = NoMsg
    /\ lock = Unlocked
    /\ grown = 0
    /\ sent = <<>>
    /\ result = "none"
    /\ logged = FALSE

\* one message of any shape, sent on any of the chains as often as the producers do
InitBS ==
    /\ InitStore
    /\ codecIdle
    /\ BlockServerNew
    /\ budget = MaxRequests
    /\ msgs \in {{m} : m \in Requests}
    /\ chain \in ChainSamples
    /\ hist = NoHistory

SpecBS == InitBS /\ [][NextBS]_vars

\* the dispatch loop under load: producers that never stop, sending a getblocks
\* whose second block cannot be read and a getheaders
InitLoop ==
    /\ InitStore
    /\ codecIdle
    /\ BlockServerNew
    /\ budget = -1
    /\ msgs = {GetBlocksMsg(1, <<0>>), GetHeadersMsg(1, <<0>>)}
    /\ chain = [tip |-> 3, noBody |-> {}, bad |-> {2}]
    /\ hist = NoHistory

SpecLoop == InitLoop /\ [][NextBS]_vars

\* the scheduler lets every thread run that stays able to: a send with room in
\* the channel, the worker, the chain writer
FairBS ==
    /\ WF_vars(enqueue)
    /\ WF_vars(recv)
    /\ WF_vars(recv_disconnected)
    /\ WF_vars(handle)
    /\ WF_vars(handler_return)
    /\ WF_vars(writer_lock)
    /\ WF_vars(writer_accept)

\* producers that never stop sending one getblocks, under that scheduler: the
\* channel fills and stays full
InitFull ==
    /\ InitStore
    /\ codecIdle
    /\ BlockServerNew
    /\ budget = -1
    /\ msgs = {GetBlocksMsg(1, <<0>>)}
    /\ chain = [tip |-> 3, noBody |-> {}, bad |-> {2}]
    /\ hist = NoHistory

SpecFull == InitFull /\ [][NextBS]_vars /\ FairBS

\* the block server beside a chain writer that may panic under the write lock
NextPoison ==
    \/ NextBS
    \/ writer_panic
    \/ handle_poisoned
    \/ send_rejected

\* a burst of requests of every kind and a message that is none, on each chain
InitPoison ==
    /\ InitStore
    /\ codecIdle
    /\ BlockServerNew
    /\ budget = MaxBurst
    /\ msgs = {GetHeadersMsg(1, <<0>>), GetBlocksMsg(1, <<0>>),
               GetDataMsg(1, <<Inv("WitnessBlock", 1)>>), PingMsg(1)}
    /\ chain \in ChainSamples
    /\ hist = NoHistory

SpecPoison == InitPoison /\ [][NextPoison]_vars

\* a burst of messages, each recorded as it is accepted and as it is handled,
\* under a scheduler that lets every thread run that is able to
InitBurst ==
    /\ InitStore
    /\ codecIdle
    /\ BlockServerNew
    /\ budget = MaxBurst
    /\ msgs = {GetBlocksMsg(1, <<0>>), GetHeadersMsg(1, <<0>>)}
    /\ chain = [tip |-> 3, noBody |-> {}, bad |-> {2}]
    /\ hist = [on |-> TRUE, accepted |-> <<>>, handled |-> <<>>]

SpecBurst == InitBurst /\ [][NextBS]_vars /\ FairBS


-----------------------------------------------------------------------------
(* Claims on the block server *)

\* the places of the locators that are on the trunk
OnTrunkAt(c, locs) == {i \in 1..Len(locs) : is_on_trunk(c, locs[i])}

\* the first locator on the trunk, -1 if none is
FirstOnTrunk(c, locs) ==
    IF OnTrunkAt(c, locs) = {} THEN -1
    ELSE locs[CHOOSE i \in OnTrunkAt(c, locs) : \A j \in OnTrunkAt(c, locs) : i <= j]

\* the worker has run the handler of a request of the given type
Handled(type) == wpc = "returning" /\ cur.kind = "Message" /\ cur.type = type

\* the heights named by the replies sent: of every header of a Headers reply, of
\* the header of a Block reply
HeightsSent ==
    UNION { IF sent[k].type = "Headers"
            THEN {sent[k].headers[j].header : j \in 1..Len(sent[k].headers)}
            ELSE {sent[k].header} : k \in 1..Len(sent) }

\* C7: the replies to a getheaders and to a getblocks are those the first
\* locator on the trunk alone would get, whatever follows it in the list: they
\* start right after it and name no height at or below it; a list with no
\* locator on the trunk gets none
C7_FirstTrunkLocatorDecides ==
    (Handled("GetHeaders") \/ Handled("GetBlocks")) =>
        LET first == FirstOnTrunk(chain, cur.locator_hashes)
            alone == [cur EXCEPT !.locator_hashes = <<first>>]
        IN IF first = -1
           THEN sent = <<>> /\ result = "ok"
           ELSE /\ sent = Dispatch(chain, alone).sent
                /\ result = Dispatch(chain, alone).result
                /\ \A h \in HeightsSent : h > first
                /\ (Handled("GetHeaders") /\ sent # <<>>) => sent[1].headers[1].header = first + 1

\* a reply was sent for a list of two different locators that are both on the trunk
C7_Witness ==
    /\ Handled("GetHeaders") \/ Handled("GetBlocks")
    /\ Len(cur.locator_hashes) = 2
    /\ OnTrunkAt(chain, cur.locator_hashes) = {1, 2}
    /\ cur.locator_hashes[1] # cur.locator_hashes[2]
    /\ sent # <<>>

\* a reply was sent for a list whose first locator is not on the trunk
C7_WitnessSkipped ==
    /\ Handled("GetHeaders") \/ Handled("GetBlocks")
    /\ Len(cur.locator_hashes) = 2
    /\ OnTrunkAt(chain, cur.locator_hashes) = {2}
    /\ sent # <<>>

\* C8: a getheaders whose first locator on the trunk is H gets at most one
\* Headers reply, holding the headers of the heights H+1 .. tip in order, cut to
\* the first 2000, each with a transaction count of zero; with no locator on the
\* trunk or with H the tip it gets nothing; the handler returns Ok either way
C8_HeadersReply ==
    Handled("GetHeaders") =>
        LET first == FirstOnTrunk(chain, cur.locator_hashes)
            count == IF first = -1 THEN 0
                     ELSE IF chain.tip - first > 2000 THEN 2000 ELSE chain.tip - first
        IN /\ result = "ok"
           /\ Len(sent) <= 1
           /\ (count = 0) <=> (sent = <<>>)
           /\ sent # <<>> =>
                /\ sent[1].type = "Headers"
                /\ sent[1].to = cur.pid
                /\ Len(sent[1].headers) = count
                /\ \A k \in 1..count :
                     sent[1].headers[k] = [header |-> first + k, tx_count |-> 0]

\* a Headers reply was cut to 2000 headers although more follow the locator
C8_Witness ==
    /\ Handled("GetHeaders")
    /\ sent # <<>>
    /\ Len(sent[1].headers) = 2000
    /\ chain.tip - FirstOnTrunk(chain, cur.locator_hashes) > 2000

\* a getheaders at the tip got nothing
C8_WitnessNothing ==
    /\ Handled("GetHeaders")
    /\ FirstOnTrunk(chain, cur.locator_hashes) = chain.tip
    /\ sent = <<>>
    /\ result = "ok"

\* C9: a getblocks whose first locator on the trunk is H gets, when every body
\* met can be read, exactly one Block reply for each of the heights H+1 ..
\* min(H+500, tip) that has a stored body, in rising order; a height without a
\* body gets no reply, raises no error and still uses up one of the 500
C9_BlocksReply ==
    Handled("GetBlocks") =>
        LET first == FirstOnTrunk(chain, cur.locator_hashes)
            last == IF chain.tip - first > 500 THEN first + 500 ELSE chain.tip
            walked == IF first = -1 THEN {} ELSE (first + 1)..last
            stored == {h \in walked : h \notin chain.noBody}
        IN /\ result = "err" => \E h \in stored : h \in chain.bad
           /\ result = "ok" =>
                /\ Len(sent) = Cardinality(stored)
                /\ {sent[k].header : k \in 1..Len(sent)} = stored
                /\ \A k \in 1..Len(sent) :
                     /\ sent[k].type = "Block"
                     /\ sent[k].to = cur.pid
                     /\ sent[k].txdata = <<sent[k].header>>
                     /\ k > 1 => sent[k - 1].header < sent[k].header

\* a getblocks walked 500 heights, one of them without a body, and more follow
C9_Witness ==
    /\ Handled("GetBlocks")
    /\ result = "ok"
    /\ chain.tip - FirstOnTrunk(chain, cur.locator_hashes) > 500
    /\ FirstOnTrunk(chain, cur.locator_hashes) # -1
    /\ \E h \in chain.noBody :
         /\ h > FirstOnTrunk(chain, cur.locator_hashes)
         /\ h <= FirstOnTrunk(chain, cur.locator_hashes) + 500
    /\ Len(sent) = 499

\* C10: the step the worker takes after a handler returned an error logs the
\* error and goes back to waiting for a message, with the channel as it was and
\* the read lock released; a request handled after an error gets the reply it
\* gets on a fresh server
C10_LoopSurvivesErrors ==
    /\ [][ (wpc = "returning" /\ result = "err" /\ wpc' # wpc) =>
             /\ wpc' = "recv"
             /\ logged'
             /\ mailbox' = mailbox
             /\ lock'.readers = 0 ]_vars
    /\ []( (wpc = "returning" /\ logged) =>
             /\ sent = Dispatch(chain, cur).sent
             /\ result = Dispatch(chain, cur).result
             /\ (cur.type = "GetHeaders" =>
                   /\ result = "ok"
                   /\ Len(sent) = 1
                   /\ Len(sent[1].headers) = chain.tip) )

\* a request was answered after an earlier one had failed
C10_Witness ==
    /\ logged
    /\ wpc = "returning"
    /\ cur.type = "GetHeaders"
    /\ result = "ok"
    /\ sent # <<>>

\* C11: the worker ends in one way only, receiver.recv() failing with every
\* sender dropped and the channel empty; whatever message it has received and
\* whatever the chain index and its lock hold, it does not end while handling
C11_StopsOnlyOnDisconnect ==
    [][ (wpc # "panicked" /\ wpc' = "panicked") =>
          (wpc = "recv" /\ senders = 0 /\ mailbox = <<>>) ]_vars


\* C12: the channel never holds more than 10 messages; a send called while it
\* holds 10 keeps its message and waits; the channel leaves that state only by
\* the worker taking its first message; a send under way ends only by its
\* message being appended to the channel, and it does end
C12_BlocksWhenFull ==
    /\ [](Len(mailbox) <= 10)
    /\ [][ (sending # NoMsg /\ Len(mailbox) = 10) => sending' = sending ]_vars
    /\ [][ (Len(mailbox) = 10 /\ mailbox' # mailbox) =>
             (wpc = "recv" /\ wpc' = "dispatch" /\ cur' = Head(mailbox)
              /\ mailbox' = Tail(mailbox)) ]_vars
    /\ [][ (sending # NoMsg /\ sending' # sending) =>
             (sending' = NoMsg /\ mailbox' = Append(mailbox, sending)) ]_vars
    /\ (sending # NoMsg /\ Len(mailbox) = 10) ~> (sending = NoMsg)

\* a send waits on a channel that holds 10 messages while the worker is inside
\* a handler
C12_Witness ==
    /\ Len(mailbox) = 10
    /\ sending # NoMsg
    /\ wpc = "returning"


\* s is the beginning of t
IsPrefix(s, t) == Len(s) <= Len(t) /\ SubSeq(t, 1, Len(s)) = s

\* the message run() has received and not yet matched
Received == IF wpc = "dispatch" THEN <<cur>> ELSE <<>>

\* C13: the messages handled are, in order, the first of the messages accepted,
\* the rest being the one received and those in the channel, none lost and none
\* twice; every message accepted is handled in the end; when the worker ends
\* after the last sender was dropped, every message accepted has been handled
C13_FifoExactlyOnce ==
    /\ [](IsPrefix(hist.handled, hist.accepted))
    /\ [](hist.accepted = hist.handled \o Received \o mailbox)
    /\ [](wpc = "panicked" => hist.handled = hist.accepted)
    /\ \A n \in 1..MaxBurst :
         (Len(hist.accepted) >= n) ~> (Len(hist.handled) >= n)

\* the last sender was dropped while the channel held two different messages,
\* after a first message had been handled
C13_Witness ==
    /\ senders = 0
    /\ wpc = "recv"
    /\ Len(mailbox) >= 2
    /\ mailbox[1] # mailbox[2]
    /\ hist.handled # <<>>


\* C14: from the moment a handler has read the chain index until it returns it
\* holds the read lock, no writer holds the lock, the chain index does not
\* change, and the replies made are those its request gets on the chain index
\* as it then is
C14_OneSnapshotPerRequest ==
    /\ []( (wpc = "returning" /\ IsRequest(cur)) =>
             /\ lock.readers = 1
             /\ ~lock.writer
             /\ sent = Dispatch(chain, cur).sent
             /\ result = Dispatch(chain, cur).result )
    /\ [][ ((wpc = "dispatch" \/ wpc = "returning") /\ IsRequest(cur) /\ wpc' = "returning") =>
             chain' = chain ]_vars

\* a getblocks has made two replies and has not returned, while the chain
\* writer still has a header to connect
C14_Witness ==
    /\ Handled("GetBlocks")
    /\ Len(sent) >= 2
    /\ grown < MaxGrowth
    /\ lock.readers = 1

\* C15: outside a handler the worker holds no read lock; the step in which a
\* handler returns, with Ok or with Err, leaves no reader on the lock; the
\* chain writer, as long as it has a header to connect, comes to hold the lock
C15_LockReleasedOnEveryPath ==
    /\ []( wpc \in {"recv", "dispatch", "panicked"} => lock.readers = 0 )
    /\ [][ (wpc = "returning" /\ wpc' # "returning") => lock'.readers = 0 ]_vars
    /\ (grown < MaxGrowth) ~> lock.writer

\* the chain writer took the lock for the first time after a getblocks had
\* returned an error
C15_Witness ==
    /\ logged
    /\ grown = 0
    /\ lock.writer
    /\ wpc = "recv"


\* InvType::WitnessBlock
IsWitnessBlock(inv) == inv.inv_type = "WitnessBlock"

\* C16: a getdata gets the replies and returns the result it gets with every
\* item of another type than witness-block taken out of it: such an item
\* sends nothing, raises no error and does not end the scan; a message that is
\* no getheaders, getblocks or getdata sends nothing, returns Ok and takes no lock
C16_OtherTypesIgnored ==
    /\ Handled("GetData") =>
          LET kept == SelectSeq(cur.inventory, IsWitnessBlock)
          IN /\ sent = get_data(chain, cur.pid, kept, 1, <<>>).sent
             /\ result = get_data(chain, cur.pid, kept, 1, <<>>).result
             /\ kept = <<>> => (sent = <<>> /\ result = "ok")
    /\ (wpc = "returning" /\ ~IsRequest(cur)) =>
          (sent = <<>> /\ result = "ok" /\ lock.readers = 0)

\* a getdata whose first item is of another type, naming a block that is
\* stored, got one reply, for its second item
C16_Witness ==
    /\ Handled("GetData")
    /\ Len(cur.inventory) = 2
    /\ ~IsWitnessBlock(cur.inventory[1])
    /\ get_header(chain, cur.inventory[1].hash).block # -1
    /\ ~FetchFails(chain, cur.inventory[1].hash)
    /\ Len(sent) = 1
    /\ sent[1].header = cur.inventory[2].hash
    /\ result = "ok"

\* a message that is no request was matched by run()
C16_WitnessOtherMessage ==
    /\ wpc = "returning"
    /\ ~IsRequest(cur)
    /\ cur.kind = "Connected" \/ cur.type = "Ping"


Min(S) == CHOOSE x \in S : \A y \in S : x <= y

\* every reply made is a Block message to the requesting peer
OnlyBlocksSent == \A k \in 1..Len(sent) : sent[k].type = "Block" /\ sent[k].to = cur.pid

\* C17: a getblocks that meets, among the 500 heights after its locator, a
\* stored body that cannot be read returns the error, having sent exactly the
\* blocks of the stored heights before the first such height, in order, and
\* nothing else; a getdata whose item k is the first witness-block item naming
\* a stored body that cannot be read returns the error, having sent exactly
\* the blocks of the served items before k; a handler returns an error in no
\* other case
C17_FetchFailureAborts ==
    /\ Handled("GetBlocks") =>
          LET first == FirstOnTrunk(chain, cur.locator_hashes)
              last == IF chain.tip - first > 500 THEN first + 500 ELSE chain.tip
              walked == IF first = -1 THEN {} ELSE (first + 1)..last
              failing == {h \in walked : h \notin chain.noBody /\ h \in chain.bad}
          IN /\ (result = "err") <=> (failing # {})
             /\ failing # {} =>
                  LET before == {h \in walked : h < Min(failing) /\ h \notin chain.noBody}
                  IN /\ Len(sent) = Cardinality(before)
                     /\ {sent[k].header : k \in 1..Len(sent)} = before
                     /\ \A k \in 2..Len(sent) : sent[k - 1].header < sent[k].header
                     /\ OnlyBlocksSent
    /\ Handled("GetData") =>
          LET items == cur.inventory
              Served(inv) == /\ inv.inv_type = "WitnessBlock"
                             /\ inv.hash \in 0..chain.tip
                             /\ inv.hash \notin chain.noBody
              failing == {i \in 1..Len(items) : Served(items[i]) /\ items[i].hash \in chain.bad}
          IN /\ (result = "err") <=> (failing # {})
             /\ failing # {} =>
                  LET before == SelectSeq(SubSeq(items, 1, Min(failing) - 1), Served)
                  IN /\ Len(sent) = Len(before)
                     /\ \A k \in 1..Len(sent) : sent[k].header = before[k].hash
                     /\ OnlyBlocksSent

\* a getblocks sent one block, passed a height without a body and stopped with
\* an error at a body that cannot be read
C17_Witness ==
    /\ Handled("GetBlocks")
    /\ result = "err"
    /\ Len(sent) = 1
    /\ \E h \in chain.noBody : h > sent[1].header /\ \E b \in chain.bad : h < b

\* a getdata sent the block of its first item and stopped with an error at its second
C17_WitnessGetData ==
    /\ Handled("GetData")
    /\ result = "err"
    /\ Len(cur.inventory) = 2
    /\ Len(sent) = 1


-----------------------------------------------------------------------------
(* Claims on get_a_peer *)

\* row r is stored, not banned at the clock value t, and its socket address is
\* not among those in earlier
Eligible(c, r, t, earlier) ==
    /\ r \in DOMAIN c.peers
    /\ c.peers[r].banned_until < t
    /\ SocketAddrOf(PeerOfRow(c.peers[r])) # SocketAddrErr
    /\ SocketAddrOf(PeerOfRow(c.peers[r])) \notin earlier

\* C18: while get_a_peer runs on a table built by store_peer, ban and
\* remove_peer calls, every stored row that is not banned and not excluded is
\* one a draw can select: its rowid is among the values the draw can take
C18_EveryEligibleRowCanBeDrawn ==
    gp.active =>
        \A r \in DOMAIN tx.peers :
            Eligible(tx, r, now, gp.earlier) =>
                \E rowid \in DrawRange(gp.n_peers) : rowid = r /\ Fetchable(tx, rowid, now)

\* C19: on a table without rows get_a_peer returns no-peers without a draw; on
\* any other it makes between 1 and 100 draws and returns a peer or no-peers,
\* the hundredth failing draw being the last; each pass made counts; no step of
\* it changes the scope's content, the committed content or the dirty flag; a
\* call that has entered its loop leaves it
C19_GetAPeerTerminates ==
    /\ []( gp.active => (gp.attempt < 100 /\ gp.n_peers = Cardinality(DOMAIN tx.peers)
                          /\ gp.n_peers > 0) )
    /\ []( ret.op = "get_a_peer" =>
             /\ ret.res \in {"running", "ok", "no_peers"}
             /\ ret.res = "running" <=> gp.active
             /\ ret.res = "ok" => ret.n \in 1..100
             /\ ret.res = "no_peers" =>
                   \/ ret.n = 0 /\ DOMAIN tx.peers = {}
                   \/ ret.n = 100 /\ DOMAIN tx.peers # {} )
    /\ [][ (gp.active /\ gp' # gp) => (~gp'.active \/ gp'.attempt = gp.attempt + 1) ]_vars
    /\ [][ tx' = tx /\ db' = db /\ dirty' = dirty /\ scope' = scope ]_vars
    /\ gp.active ~> ~gp.active

\* get_a_peer gave up after 100 draws on a table that holds rows
C19_Witness ==
    /\ ret.op = "get_a_peer"
    /\ ret.res = "no_peers"
    /\ ret.n = 100
    /\ DOMAIN tx.peers # {}

\* get_a_peer returned no-peers at once on a table without rows
C19_WitnessEmpty ==
    /\ ret.op = "get_a_peer"
    /\ ret.res = "no_peers"
    /\ ret.n = 0
    /\ "peers" \in tx.schema
    /\ DOMAIN tx.peers = {}

\* C20: the Address get_a_peer returns is the one given to the store_peer call
\* that inserted the row it was read from: the same eight words, port and
\* service flags
C20_ReturnsStoredRecord ==
    (ret.op = "get_a_peer" /\ ret.res = "ok") =>
        \E a \in PeerArgs :
            /\ KeyOf(a.address) = tx.peers[ret.rowid].address
            /\ a.port = tx.peers[ret.rowid].port
            /\ a.services = tx.peers[ret.rowid].services
            /\ ret.peer = a


=============================================================================
